---- MODULE Spec2Model ----
(***************************************************************************)
(* A model of JSONGenerator (src/jsongen.py): the rule parser, the value   *)
(* resolver, the uniqueness tracker, the format templater, the type        *)
(* coercer and the record generator.                                       *)
(*                                                                         *)
(* Python strings are modelled as sequences of one-character strings, so   *)
(* that prefix matching, formatting and parsing are computed, not assumed. *)
(* Python values are modelled as tagged records [t, n, s]: t is the Python *)
(* type ("int", "float", "bool", "str", "none", "list", "dict"), n the     *)
(* number (a float is kept in hundredths), s the characters of a str and   *)
(* kids the elements of a list or the items of a dict.                     *)
(* Every call of the random module is a nondeterministic choice.           *)
(***************************************************************************)
EXTENDS Integers, Sequences, FiniteSets, TLC

VARIABLES
    schema,            \* self.schema: a sequence of [key, cfg] in declaration order
    custom_rules,      \* self.custom_rules: rule name -> the value its callback returns
    file_data,         \* self.file_data: data type -> sequence of lines
    generated_values,  \* self.generated_values: field path -> set of issued integers
    op,                \* the operation that ran last
    arg,               \* its arguments
    ret,               \* what it returned, or that it raised
    hist               \* history of the calls since the tracker was last reset

vars == <<schema, custom_rules, file_data, generated_values, op, arg, ret, hist>>

-----------------------------------------------------------------------------
(* Characters and strings                                                  *)

DigitChars == <<"0", "1", "2", "3", "4", "5", "6", "7", "8", "9">>

Digit == {DigitChars[i] : i \in 1..10}

\* string.ascii_uppercase, string.ascii_lowercase, string.ascii_letters
ascii_uppercase ==
    {"A", "B", "C", "D", "E", "F", "G", "H", "I", "J", "K", "L", "M",
     "N", "O", "P", "Q", "R", "S", "T", "U", "V", "W", "X", "Y", "Z"}

ascii_lowercase ==
    {"a", "b", "c", "d", "e", "f", "g", "h", "i", "j", "k", "l", "m",
     "n", "o", "p", "q", "r", "s", "t", "u", "v", "w", "x", "y", "z"}

ascii_letters == ascii_lowercase \cup ascii_uppercase

DigitVal(c) == CHOOSE d \in 0..9 : DigitChars[d + 1] = c

RECURSIVE Pow10(_)
Pow10(k) == IF k <= 0 THEN 1 ELSE 10 * Pow10(k - 1)

\* str(n) of a non-negative int
RECURSIVE NatToStr(_)
NatToStr(n) ==
    IF n < 10 THEN <<DigitChars[n + 1]>>
    ELSE NatToStr(n \div 10) \o <<DigitChars[(n % 10) + 1]>>

\* str(n) of an int
IntToStr(n) == IF n < 0 THEN <<"-">> \o NatToStr(0 - n) ELSE NatToStr(n)

IsDigits(s) == Len(s) > 0 /\ \A i \in 1..Len(s) : s[i] \in Digit

\* the value of a non-empty string of decimal digits (leading zeros allowed)
RECURSIVE DigitsToNat(_)
DigitsToNat(s) ==
    IF Len(s) = 0 THEN 0
    ELSE 10 * DigitsToNat(SubSeq(s, 1, Len(s) - 1)) + DigitVal(s[Len(s)])

\* str.startswith
StartsWith(s, p) == Len(s) >= Len(p) /\ SubSeq(s, 1, Len(p)) = p

Drop(s, k) == SubSeq(s, k + 1, Len(s))

\* the length of the longest prefix of s whose characters all satisfy Ok
RECURSIVE RunLen(_, _, _)
RunLen(s, Ok(_), k) ==
    IF k < Len(s) /\ Ok(s[k + 1]) THEN RunLen(s, Ok, k + 1) ELSE k

IsDigitChar(c) == c \in Digit

NotBrace(c) == c # "}"

\* str.split(sep) for a one-character separator, as a sequence of strings
RECURSIVE Split(_, _)
Split(s, sep) ==
    LET k == RunLen(s, LAMBDA c : c # sep, 0)
    IN  IF k = Len(s) THEN <<s>>
        ELSE <<SubSeq(s, 1, k)>> \o Split(Drop(s, k + 1), sep)

\* str.strip() over the model's alphabet (the only whitespace in it is " ")
RECURSIVE Strip(_)
Strip(s) ==
    IF Len(s) > 0 /\ s[1] = " " THEN Strip(Drop(s, 1))
    ELSE IF Len(s) > 0 /\ s[Len(s)] = " " THEN Strip(SubSeq(s, 1, Len(s) - 1))
    ELSE s

-----------------------------------------------------------------------------
(* Python values                                                           *)

IntV(n)   == [t |-> "int",   n |-> n, s |-> <<>>, kids |-> <<>>]
FloatV(c) == [t |-> "float", n |-> c, s |-> <<>>, kids |-> <<>>]   \* c hundredths
BoolV(b)  == [t |-> "bool",  n |-> IF b THEN 1 ELSE 0, s |-> <<>>, kids |-> <<>>]
StrV(s)   == [t |-> "str",   n |-> 0, s |-> s, kids |-> <<>>]
NoneV     == [t |-> "none",  n |-> 0, s |-> <<>>, kids |-> <<>>]
\* a list of values, and a dict as its [key, value] items in insertion order
ListV(vs) == [t |-> "list",  n |-> 0, s |-> <<>>, kids |-> vs]
DictV(kv) == [t |-> "dict",  n |-> 0, s |-> <<>>, kids |-> kv]

-----------------------------------------------------------------------------
(* Rule Parser                                                             *)

\* Python 3 str literals for the words of the patterns and the rules
W_open   == <<"@", "{">>
W_unique == <<"u", "n", "i", "q", "u", "e">>
W_range  == <<"r", "a", "n", "g", "e">>
W_length == <<"l", "e", "n", "g", "t", "h">>
W_choice == <<"c", "h", "o", "i", "c", "e">>
W_format == <<"f", "o", "r", "m", "a", "t">>

\* the keys of builtin_patterns in insertion order, which is the order
\* _parse_rule tries them in
PatternNames == <<W_unique, W_range, W_length, W_choice, W_format>>

NoMatch == [matched |-> FALSE, groups |-> <<>>]

\* re.match(r'@{(\d+)}KIND', rule): anchored at the start of the rule only.
\* \d+ is greedy and the next character must be "}", so the group is the
\* whole run of digits after "@{".
MatchDigitsKind(rule, kindWord) ==
    IF ~StartsWith(rule, W_open) THEN NoMatch
    ELSE LET rest == Drop(rule, 2)
             k    == RunLen(rest, IsDigitChar, 0)
         IN  IF k >= 1 /\ StartsWith(Drop(rest, k), <<"}">> \o kindWord)
             THEN [matched |-> TRUE, groups |-> <<SubSeq(rest, 1, k)>>]
             ELSE NoMatch

\* re.match(r'@{(\d+)-(\d+)}range', rule)
MatchRange(rule) ==
    IF ~StartsWith(rule, W_open) THEN NoMatch
    ELSE LET rest  == Drop(rule, 2)
             k1    == RunLen(rest, IsDigitChar, 0)
             rest2 == Drop(rest, k1 + 1)
             k2    == RunLen(rest2, IsDigitChar, 0)
         IN  IF /\ k1 >= 1
                /\ StartsWith(Drop(rest, k1), <<"-">>)
                /\ k2 >= 1
                /\ StartsWith(Drop(rest2, k2), <<"}">> \o W_range)
             THEN [matched |-> TRUE,
                   groups |-> <<SubSeq(rest, 1, k1), SubSeq(rest2, 1, k2)>>]
             ELSE NoMatch

\* re.match(r'@{([^}]+)}KIND', rule): the group cannot hold a "}", so it
\* is the text up to the first "}".
MatchPayloadKind(rule, kindWord) ==
    IF ~StartsWith(rule, W_open) THEN NoMatch
    ELSE LET rest == Drop(rule, 2)
             k    == RunLen(rest, NotBrace, 0)
         IN  IF k >= 1 /\ StartsWith(Drop(rest, k), <<"}">> \o kindWord)
             THEN [matched |-> TRUE, groups |-> <<SubSeq(rest, 1, k)>>]
             ELSE NoMatch

\* re.match(self.builtin_patterns[name], rule)
builtin_patterns(name, rule) ==
    IF name = W_unique THEN MatchDigitsKind(rule, W_unique)
    ELSE IF name = W_range THEN MatchRange(rule)
    ELSE IF name = W_length THEN MatchDigitsKind(rule, W_length)
    ELSE IF name = W_choice THEN MatchPayloadKind(rule, W_choice)
    ELSE MatchPayloadKind(rule, W_format)

\* _parse_rule: (rule_type, params). An opaque rule comes back as itself
\* with no params (the empty dict of the source).
_parse_rule(rule) ==
    IF ~StartsWith(rule, W_open) THEN [kind |-> rule, params |-> <<>>]
    ELSE LET hits == {i \in 1..Len(PatternNames) :
                        builtin_patterns(PatternNames[i], rule).matched}
         IN  IF hits = {} THEN [kind |-> rule, params |-> <<>>]
             ELSE LET i == CHOOSE j \in hits : \A h \in hits : j <= h
                  IN  [kind   |-> PatternNames[i],
                       params |-> builtin_patterns(PatternNames[i], rule).groups]

-----------------------------------------------------------------------------
(* Uniqueness Tracker                                                      *)

\* range(1000) in _generate_unique_number: the draws of one call
RetryBudget == 1000

\* The two characters str(int(datetime.now().timestamp()))[-2:] can be: the
\* last two digits of the clock's seconds. Two of the hundred.
TimestampSuffixes == {<<"0", "7">>, <<"6", "3">>}

\* self.generated_values[field_name], the empty set for a path not yet seen
Issued(gv, field_name) ==
    IF field_name \in DOMAIN gv THEN gv[field_name] ELSE {}

\* dict item assignment: d[k] = v
DictSet(d, k, v) == [x \in DOMAIN d \cup {k} |-> IF x = k THEN v ELSE d[x]]

min_val(digits) == IF digits > 1 THEN Pow10(digits - 1) ELSE 0

max_val(digits) == Pow10(digits) - 1

\* A loop that returns its draw without looking it up in the set of the path.
LoopAcceptsAny(value, issued) == TRUE

\* The value the retry loop may return: a draw of randint(min_val, max_val)
\* that is not yet in the set of the path.
LoopAccepts(value, issued) == value \notin issued

\* A loop that returns its draw without adding it to the set of the path.
LoopForgets(issued, value) == issued

\* What the retry loop does with the draw it returns: it adds it to the set.
LoopRecord(issued, value) == issued \cup {value}

\* The fallback of line 196: int(str(randint(min_val, max_val // 10)) + suffix).
\* randint raises ValueError on an empty range.
Fallback(digits) ==
    LET lo == min_val(digits)
        hi == max_val(digits) \div 10
    IN  IF lo > hi THEN {[raised |-> TRUE, n |-> 0]}
        ELSE {[raised |-> FALSE, n |-> DigitsToNat(NatToStr(prefix) \o sfx)] :
                 prefix \in lo..hi, sfx \in TimestampSuffixes}

\* _generate_unique_number(digits, field_name) on tracker gv: the set of its
\* outcomes [step, raised, n, gv]. The loop returns its first draw that is
\* not in the set, so it can return any free value of the space; it runs out
\* when all RetryBudget draws are values already in the set.
_generate_unique_number(digits, field_name, gv) ==
    LET gv1    == IF field_name \in DOMAIN gv THEN gv
                  ELSE DictSet(gv, field_name, {})
        issued == gv1[field_name]
        space  == min_val(digits)..max_val(digits)
        accept == {v \in space : LoopAccepts(v, issued)}
        reject == space \ accept
        found  == IF RetryBudget > 0
                  THEN {[step |-> "loop", raised |-> FALSE, n |-> v,
                         gv |-> DictSet(gv1, field_name, LoopRecord(issued, v))] :
                           v \in accept}
                  ELSE {}
        spent  == IF RetryBudget = 0 \/ reject # {}
                  THEN {[step |-> "fallback", raised |-> f.raised, n |-> f.n,
                         gv |-> gv1] : f \in Fallback(digits)}
                  ELSE {}
    IN  found \cup spent

-----------------------------------------------------------------------------
(* Format Templater                                                        *)

\* str.replace(old, new) for one-character old and new
Replace(s, old, new) == [i \in 1..Len(s) |-> IF s[i] = old THEN new ELSE s[i]]

\* _apply_format with the four draws it makes: one digit, one uppercase
\* letter, one lowercase letter, one letter
_apply_format(format_str, d, u, l, q) ==
    LET r1 == Replace(format_str, "#", d)
        r2 == Replace(r1, "A", u)
        r3 == Replace(r2, "a", l)
    IN  Replace(r3, "?", q)

Chars(s) == {s[i] : i \in 1..Len(s)}

\* The draws that can change the result: a draw for a placeholder that does
\* not occur is replaced by nothing, so one representative stands for it.
DrawsFor(placeholder, alphabet, s) ==
    IF placeholder \in Chars(s) THEN alphabet
    ELSE {CHOOSE c \in alphabet : TRUE}

\* every result _apply_format can return for a template
FormatOutputs(format_str) ==
    {_apply_format(format_str, d, u, l, q) :
        d \in DrawsFor("#", Digit, format_str),
        u \in DrawsFor("A", ascii_uppercase, format_str),
        l \in DrawsFor("a", ascii_lowercase, format_str),
        q \in DrawsFor("?", ascii_letters, format_str)}

-----------------------------------------------------------------------------
(* Type Coercer                                                            *)

\* repr of a float kept in hundredths: "2.5", "10.0", "-0.05"
FloatToStr(c) ==
    LET a    == IF c < 0 THEN 0 - c ELSE c
        frac == a % 100
        fs   == IF frac % 10 = 0 THEN NatToStr(frac \div 10)
                ELSE <<DigitChars[(frac \div 10) + 1], DigitChars[(frac % 10) + 1]>>
    IN  (IF c < 0 THEN <<"-">> ELSE <<>>) \o NatToStr(a \div 100) \o <<".">> \o fs

\* str(value)
PyStr(value) ==
    IF value.t = "int" THEN IntToStr(value.n)
    ELSE IF value.t = "float" THEN FloatToStr(value.n)
    ELSE IF value.t = "bool" THEN (IF value.n = 1 THEN <<"T", "r", "u", "e">> ELSE <<"F", "a", "l", "s", "e">>)
    ELSE IF value.t = "str" THEN value.s
    ELSE <<"N", "o", "n", "e">>

\* float(s) of a str: [ok, c] with c in hundredths. The literals covered are
\* [sign] digits [. digits] and [sign] . digits, after stripping blanks;
\* exponents, underscores, "inf" and "nan" do not occur in the model's
\* strings. Digits after the second decimal are dropped.
ParseFloat(str) ==
    LET s0   == Strip(str)
        neg  == Len(s0) > 0 /\ s0[1] = "-"
        s1   == IF Len(s0) > 0 /\ s0[1] \in {"-", "+"} THEN Drop(s0, 1) ELSE s0
        k1   == RunLen(s1, IsDigitChar, 0)
        dot  == k1 < Len(s1) /\ s1[k1 + 1] = "."
        s2   == IF dot THEN Drop(s1, k1 + 1) ELSE Drop(s1, k1)
        k2   == RunLen(s2, IsDigitChar, 0)
        ok   == k2 = Len(s2) /\ k1 + k2 >= 1
        ip   == DigitsToNat(SubSeq(s1, 1, k1))
        f2   == SubSeq(s2 \o <<"0", "0">>, 1, 2)
        mag  == ip * 100 + DigitsToNat(f2)
    IN  IF ok THEN [ok |-> TRUE, c |-> IF neg THEN 0 - mag ELSE mag]
        ELSE [ok |-> FALSE, c |-> 0]

\* int(x) of a float in hundredths: truncation toward zero
Trunc(c) == IF c < 0 THEN 0 - ((0 - c) \div 100) ELSE c \div 100

\* the 'bool' branch of _convert_type:
\* bool(value) if isinstance(value, (int, float)) else value
ConvertBool(value) ==
    IF value.t \in {"int", "float", "bool"} THEN BoolV(value.n # 0) ELSE value

\* _convert_type(value, target_type): [raised, value]
_convert_type(value, target_type) ==
    IF target_type = <<"i", "n", "t">>
    THEN LET f == ParseFloat(PyStr(value))
         IN  IF f.ok THEN [raised |-> FALSE, value |-> IntV(Trunc(f.c))]
             ELSE [raised |-> TRUE, value |-> NoneV]
    ELSE IF target_type \in {<<"f", "l", "o", "a", "t">>, <<"d", "o", "u", "b", "l", "e">>}
    THEN IF value.t \in {"int", "bool"}
         THEN [raised |-> FALSE, value |-> FloatV(value.n * 100)]
         ELSE IF value.t = "float" THEN [raised |-> FALSE, value |-> value]
         ELSE IF value.t = "str" /\ ParseFloat(value.s).ok
         THEN [raised |-> FALSE, value |-> FloatV(ParseFloat(value.s).c)]
         ELSE [raised |-> TRUE, value |-> NoneV]
    ELSE IF target_type = <<"b", "o", "o", "l">>
    THEN [raised |-> FALSE, value |-> ConvertBool(value)]
    ELSE IF target_type = <<"s", "t", "r">>
    THEN [raised |-> FALSE, value |-> StrV(PyStr(value))]
    ELSE [raised |-> FALSE, value |-> value]

-----------------------------------------------------------------------------
(* Generator registry and defaults                                         *)

\* A sample of the values random.randint(lo, hi) returns: both ends and the
\* middle. The range is empty when lo > hi, and randint raises ValueError.
RandintSample(lo, hi) == {lo, hi, (lo + hi) \div 2}

\* A sample of random.uniform(a, b), in hundredths: both ends and the middle
UniformSample(a, b) == {a, b, (a + b) \div 2}

\* A sample of ''.join(random.choices(string.ascii_letters, k=length))
LettersSample(length) == {[i \in 1..length |-> c] : c \in {"a", "Z"}}

\* self.builtin_rules: each generator as a sample of the values it returns,
\* of the Python type it returns
builtin_rules ==
    (<<"e", "m", "a", "i", "l">> :> {StrV(<<"a", "b", "c", "1", "2", "@", "g", "m", "a", "i", "l", ".", "c", "o", "m">>), StrV(<<"z", "z", "9", "y", "x", "@", "c", "o", "m", "p", "a", "n", "y", ".", "c", "o", "m">>)}) @@
    (<<"u", "s", "e", "r", "n", "a", "m", "e">> :> {StrV(<<"a", "b", "_", "c", "1">>)}) @@
    (<<"p", "a", "s", "s", "w", "o", "r", "d">> :> {StrV(<<"a", "B", "3", "!", "x", "#", "$", "%">>)}) @@
    (<<"p", "h", "o", "n", "e">> :> {StrV(<<"+", "1", "-", "2", "0", "0", "-", "2", "0", "0", "-", "1", "0", "0", "0">>), StrV(<<"+", "1", "-", "9", "9", "9", "-", "9", "9", "9", "-", "9", "9", "9", "9">>)}) @@
    (<<"u", "r", "l">> :> {StrV(<<"h", "t", "t", "p", "s", ":", "/", "/", "w", "w", "w", ".", "e", "x", "a", "m", "p", "l", "e", ".", "c", "o", "m">>), StrV(<<"h", "t", "t", "p", "s", ":", "/", "/", "w", "w", "w", ".", "s", "a", "m", "p", "l", "e", ".", "i", "o", "/", "c", "o", "n", "t", "a", "c", "t">>)}) @@
    (<<"u", "u", "i", "d">> :> {StrV(<<"1", "2", "3", "e", "4", "5", "6", "7", "-", "e", "8", "9", "b", "-", "4", "2", "d", "3", "-", "a", "4", "5", "6", "-", "4", "2", "6", "6", "1", "4", "1", "7", "4", "0", "0", "0">>)}) @@
    (<<"n", "a", "m", "e">> :> {StrV(<<"J", "o", "h", "n", " ", "S", "m", "i", "t", "h">>), StrV(<<"M", "a", "r", "y", " ", "M", "o", "o", "r", "e">>)}) @@
    (<<"f", "i", "r", "s", "t", "n", "a", "m", "e">> :> {StrV(<<"J", "o", "h", "n">>), StrV(<<"E", "m", "m", "a">>)}) @@
    (<<"l", "a", "s", "t", "n", "a", "m", "e">> :> {StrV(<<"S", "m", "i", "t", "h">>), StrV(<<"M", "o", "o", "r", "e">>)}) @@
    (<<"c", "o", "m", "p", "a", "n", "y">> :> {StrV(<<"T", "e", "c", "h", " ", "S", "o", "l", "u", "t", "i", "o", "n", "s">>), StrV(<<"F", "u", "t", "u", "r", "e", " ", "S", "e", "r", "v", "i", "c", "e", "s">>)}) @@
    (<<"a", "d", "d", "r", "e", "s", "s">> :> {StrV(<<"1", " ", "M", "a", "i", "n", " ", "S", "t">>), StrV(<<"9", "9", "9", "9", " ", "M", "a", "p", "l", "e", " ", "D", "r">>)}) @@
    (<<"c", "i", "t", "y">> :> {StrV(<<"N", "e", "w", " ", "Y", "o", "r", "k">>), StrV(<<"S", "a", "n", " ", "A", "n", "t", "o", "n", "i", "o">>)}) @@
    (<<"c", "o", "u", "n", "t", "r", "y">> :> {StrV(<<"U", "S", "A">>), StrV(<<"B", "r", "a", "z", "i", "l">>)}) @@
    (<<"z", "i", "p", "c", "o", "d", "e">> :> {StrV(<<"1", "0", "0", "0", "0">>), StrV(<<"9", "9", "9", "9", "9">>)}) @@
    (<<"t", "i", "m", "e", "s", "t", "a", "m", "p">> :> {IntV(1793849160)}) @@
    (<<"d", "a", "t", "e">> :> {StrV(<<"2", "0", "2", "0", "-", "0", "1", "-", "0", "1">>), StrV(<<"2", "0", "2", "6", "-", "1", "1", "-", "0", "5">>)}) @@
    (<<"t", "i", "m", "e">> :> {StrV(<<"0", "0", ":", "0", "0", ":", "0", "0">>), StrV(<<"2", "3", ":", "5", "9", ":", "5", "9">>)}) @@
    (<<"d", "a", "t", "e", "t", "i", "m", "e">> :> {StrV(<<"2", "0", "2", "6", "-", "1", "1", "-", "0", "5", "T", "0", "3", ":", "2", "6", ":", "0", "0", ".", "0", "0", "0", "0", "0", "1">>)}) @@
    (<<"a", "g", "e">> :> {IntV(n) : n \in RandintSample(18, 85)}) @@
    (<<"i", "d">> :> {IntV(n) : n \in RandintSample(1, 999999)}) @@
    (<<"p", "r", "i", "c", "e">> :> {FloatV(c) : c \in UniformSample(999, 99999)}) @@
    (<<"r", "a", "t", "i", "n", "g">> :> {FloatV(c) : c \in {100, 370, 500}}) @@
    (<<"s", "c", "o", "r", "e">> :> {IntV(n) : n \in RandintSample(0, 100)}) @@
    (<<"t", "i", "t", "l", "e">> :> {StrV(<<"A", "m", "a", "z", "i", "n", "g", " ", "P", "r", "o", "d", "u", "c", "t">>), StrV(<<"U", "l", "t", "i", "m", "a", "t", "e", " ", "A", "p", "p", "l", "i", "c", "a", "t", "i", "o", "n">>)}) @@
    (<<"d", "e", "s", "c", "r", "i", "p", "t", "i", "o", "n">> :> {StrV(<<"A", "n", " ", "i", "n", "n", "o", "v", "a", "t", "i", "v", "e", " ", "s", "o", "l", "u", "t", "i", "o", "n", " ", "t", "h", "a", "t", " ", "m", "e", "e", "t", "s", " ", "a", "l", "l", " ", "y", "o", "u", "r", " ", "n", "e", "e", "d", "s", ".">>)}) @@
    (<<"p", "a", "r", "a", "g", "r", "a", "p", "h">> :> {StrV(<<"L", "o", "r", "e", "m", " ", "i", "p", "s", "u", "m", " ", "d", "o", "l", "o", "r", " ", "s", "i", "t", " ", "a", "m", "e", "t", ",", " ", "c", "o", "n", "s", "e", "c", "t", "e", "t", "u", "r", " ", "a", "d", "i", "p", "i", "s", "c", "i", "n", "g", " ", "e", "l", "i", "t", ".">>)}) @@
    (<<"s", "e", "n", "t", "e", "n", "c", "e">> :> {StrV(<<"T", "h", "e", " ", "s", "y", "s", "t", "e", "m", " ", "p", "r", "o", "v", "i", "d", "e", "s", " ", "e", "x", "c", "e", "l", "l", "e", "n", "t", " ", "p", "e", "r", "f", "o", "r", "m", "a", "n", "c", "e", ".">>)}) @@
    (<<"w", "o", "r", "d">> :> {StrV(<<"e", "x", "a", "m", "p", "l", "e">>), StrV(<<"e", "l", "e", "m", "e", "n", "t">>)}) @@
    (<<"b", "o", "o", "l">> :> {BoolV(TRUE), BoolV(FALSE)}) @@
    (<<"a", "c", "t", "i", "v", "e">> :> {BoolV(TRUE), BoolV(FALSE)})

\* _generate_default_value(field_type): the values it can return
_generate_default_value(field_type) ==
    IF field_type = <<"i", "n", "t">> THEN {IntV(n) : n \in RandintSample(1, 1000)}
    ELSE IF field_type \in {<<"f", "l", "o", "a", "t">>, <<"d", "o", "u", "b", "l", "e">>}
    THEN {FloatV(c) : c \in UniformSample(0, 10000) \cup {5731}}
    ELSE IF field_type = <<"b", "o", "o", "l">> THEN {BoolV(TRUE), BoolV(FALSE)}
    ELSE IF field_type = <<"s", "t", "r">> THEN {StrV(s) : s \in LettersSample(8)}
    ELSE {NoneV}

-----------------------------------------------------------------------------
(* Value Resolver, scalar fields                                           *)

\* An outcome of the cascade. log lists the calls of the uniqueness tracker
\* the resolution made, each as [path, step, raised, n]: a record of what
\* the code did, not state of the program.
Produced(branch, raw, gv) ==
    [raised |-> FALSE, branch |-> branch, raw |-> raw, gv |-> gv, log |-> <<>>]

Raised(branch, gv) ==
    [raised |-> TRUE, branch |-> branch, raw |-> NoneV, gv |-> gv, log |-> <<>>]

\* the 'range' branch, lines 154-161
RangeBranch(field_type, params, gv) ==
    IF Len(params) # 2 THEN {Raised("range", gv)}    \* unpacking {} raises
    ELSE LET lo == DigitsToNat(params[1])
             hi == DigitsToNat(params[2])
         IN  IF field_type \in {<<"f", "l", "o", "a", "t">>, <<"d", "o", "u", "b", "l", "e">>}
             THEN {Produced("range", FloatV(c), gv) :
                      c \in UniformSample(lo * 100, hi * 100)}
             ELSE IF lo > hi THEN {Raised("range", gv)}
             ELSE {Produced("range", IntV(n), gv) : n \in RandintSample(lo, hi)}

\* the 'length' branch, lines 162-167
LengthBranch(field_type, params, gv) ==
    IF Len(params) = 0 THEN {Raised("length", gv)}   \* {}[0] raises KeyError
    ELSE LET length == DigitsToNat(params[1])
         IN  IF field_type = <<"s", "t", "r">>
             THEN {Produced("length", StrV(s), gv) : s \in LettersSample(length)}
             ELSE IF length = 0 THEN {Raised("length", gv)}  \* randint(0.1, 0)
             ELSE {Produced("length", IntV(n), gv) :
                      n \in RandintSample(Pow10(length - 1), Pow10(length) - 1)}

\* the dispatch cascade of _generate_value, lines 145-177: the raw values it
\* can produce, or that it raised
Dispatch(field_type, rule, field_name, gv, cr, fd) ==
    LET p         == _parse_rule(rule)
        rule_type == p.kind
        params    == p.params
    IN  IF rule_type \in DOMAIN cr
        THEN {Produced("custom", v, gv) : v \in cr[rule_type]}
        ELSE IF rule_type \in DOMAIN builtin_rules
        THEN {Produced("builtin", v, gv) : v \in builtin_rules[rule_type]}
        ELSE IF rule_type = W_unique
        THEN IF Len(params) = 0 THEN {Raised("unique", gv)}
             ELSE {[raised |-> o.raised, branch |-> "unique",
                    raw |-> IF o.raised THEN NoneV ELSE IntV(o.n), gv |-> o.gv,
                    log |-> <<[path |-> field_name, step |-> o.step,
                               raised |-> o.raised, n |-> o.n]>>] :
                      o \in _generate_unique_number(DigitsToNat(params[1]),
                                                     field_name, gv)}
        ELSE IF rule_type = W_range THEN RangeBranch(field_type, params, gv)
        ELSE IF rule_type = W_length THEN LengthBranch(field_type, params, gv)
        ELSE IF rule_type = W_choice
        THEN IF Len(params) = 0 THEN {Raised("choice", gv)}
             ELSE LET choices == Split(params[1], ",")
                  IN  {Produced("choice", StrV(Strip(choices[i])), gv) :
                          i \in 1..Len(choices)}
        ELSE IF rule_type = W_format
        THEN IF Len(params) = 0 THEN {Raised("format", gv)}
             ELSE {Produced("format", StrV(s), gv) : s \in FormatOutputs(params[1])}
        ELSE IF rule \in DOMAIN fd /\ Len(fd[rule]) > 0
        THEN {Produced("file", StrV(fd[rule][i]), gv) : i \in 1..Len(fd[rule])}
        ELSE {Produced("default", v, gv) : v \in _generate_default_value(field_type)}

\* _generate_value for a field that is neither array nor object: dispatch,
\* then _convert_type (line 179). where: "dispatch" or "coerce" when raised.
ResolveScalar(field_type, rule, field_name, gv, cr, fd) ==
    {IF r.raised
     THEN [raised |-> TRUE, where |-> "dispatch", branch |-> r.branch,
           raw |-> r.raw, value |-> NoneV, gv |-> r.gv, log |-> r.log]
     ELSE LET c == _convert_type(r.raw, field_type)
          IN  [raised |-> c.raised,
               where  |-> IF c.raised THEN "coerce" ELSE "none",
               branch |-> r.branch, raw |-> r.raw, value |-> c.value,
               gv |-> r.gv, log |-> r.log] :
        r \in Dispatch(field_type, rule, field_name, gv, cr, fd)}

-----------------------------------------------------------------------------
(* Value Resolver and Record Generator                                     *)

\* dict.get(key, default) on a field configuration, a record that holds
\* only the keys the configuration gives
Get(field_config, key, default) ==
    IF key \in DOMAIN field_config THEN field_config[key] ELSE default

\* f"{field_name}_{i}", the path of element i of an array and, in generate,
\* of field key in record i
IndexPath(field_name, i) == field_name \o <<"_">> \o IntToStr(i)

\* f"{field_name}.{key}", the path of a property of an object
PropertyPath(field_name, key) == field_name \o <<".">> \o key

\* the field-path discriminator generate passes to _generate_value (line 375)
RecordPath(key, i) == IndexPath(key, i)

RECURSIVE _generate_value(_, _, _, _, _)
RECURSIVE ResolveAll(_, _, _, _, _, _)

\* The calls of _generate_value a comprehension or a loop makes one after
\* the other: todo is the sequence of [cfg, name]; done the values so far.
\* The first call that raises ends the sequence. A set of [raised, where,
\* values, gv, log].
ResolveAll(todo, done, log, gv, cr, fd) ==
    IF Len(todo) = 0
    THEN {[raised |-> FALSE, where |-> "none", values |-> done, gv |-> gv,
           log |-> log]}
    ELSE UNION {
           IF o.raised
           THEN {[raised |-> TRUE, where |-> o.where, values |-> done,
                  gv |-> o.gv, log |-> log \o o.log]}
           ELSE ResolveAll(Tail(todo), Append(done, o.value), log \o o.log,
                           o.gv, cr, fd) :
             o \in _generate_value(todo[1].cfg, todo[1].name, gv, cr, fd)}

\* _generate_value(field_config, field_name): a set of [raised, where,
\* value, gv, log]
_generate_value(field_config, field_name, gv, cr, fd) ==
    LET field_type == Get(field_config, "type", <<"s", "t", "r">>)
        rule       == Get(field_config, "rule", <<>>)
    IN  IF field_type = <<"a", "r", "r", "a", "y">>
        THEN LET lengths == IF "length" \in DOMAIN field_config
                            THEN {field_config.length}
                            ELSE RandintSample(1, 5)
                 items   == Get(field_config, "items",
                                [type |-> <<"s", "t", "r">>, rule |-> <<"w", "o", "r", "d">>])
             IN  UNION {
                   {[raised |-> o.raised, where |-> o.where,
                     value |-> ListV(o.values), gv |-> o.gv, log |-> o.log] :
                      o \in ResolveAll(
                              [i \in 1..length |->
                                 [cfg |-> items,
                                  name |-> IndexPath(field_name, i - 1)]],
                              <<>>, <<>>, gv, cr, fd)} :
                   length \in lengths}
        ELSE IF field_type = <<"o", "b", "j", "e", "c", "t">>
        THEN LET properties == Get(field_config, "properties", <<>>)
             IN  {[raised |-> o.raised, where |-> o.where,
                   value |-> DictV([i \in 1..Len(o.values) |->
                                      [key |-> properties[i].key,
                                       value |-> o.values[i]]]),
                   gv |-> o.gv, log |-> o.log] :
                    o \in ResolveAll(
                            [i \in 1..Len(properties) |->
                               [cfg |-> properties[i].cfg,
                                name |-> PropertyPath(field_name,
                                                      properties[i].key)]],
                            <<>>, <<>>, gv, cr, fd)}
        ELSE {[raised |-> o.raised, where |-> o.where, value |-> o.value,
               gv |-> o.gv, log |-> o.log] :
                o \in ResolveScalar(field_type, rule, field_name, gv, cr, fd)}

\* generate(count): the calls of lines 371-375, record by record and key by
\* key in the schema's order; the records are returned as objects
\* (as_string=False, the default). A set of [raised, where, results, gv, log];
\* results is the list of records, each the values of the schema's keys.
generate(count, sch, gv, cr, fd) ==
    LET nk   == Len(sch)
        todo == [j \in 1..(count * nk) |->
                   LET i == (j - 1) \div nk
                       k == ((j - 1) % nk) + 1
                   IN  [cfg |-> sch[k].cfg, name |-> RecordPath(sch[k].key, i)]]
    IN  {[raised  |-> o.raised,
          where   |-> o.where,
          results |-> IF o.raised THEN <<>>
                      ELSE [i \in 1..count |->
                              [k \in 1..nk |-> o.values[(i - 1) * nk + k]]],
          gv      |-> o.gv,
          log     |-> o.log] :
           o \in ResolveAll(todo, <<>>, <<>>, gv, cr, fd)}

-----------------------------------------------------------------------------
(* Operations on the generator's state                                     *)

\* A set_schema that keeps the tracker when given the schema in effect.
set_schema_if_changed(new_schema, old_schema, gv) ==
    [schema |-> new_schema,
     generated_values |-> IF new_schema = old_schema THEN gv ELSE <<>>]

\* set_schema(schema), lines 96-97: the new self.schema and
\* self.generated_values
set_schema(new_schema, old_schema, gv) ==
    [schema |-> new_schema, generated_values |-> <<>>]

\* add_custom_rule(name, generator), line 101
add_custom_rule(cr, name, generator) == DictSet(cr, name, generator)

\* load_file_data(data_type, file_path), lines 111-116. A file is [found,
\* lines]; a missing file leaves the empty list.
load_file_data(fd, data_type, file) ==
    IF ~file.found THEN DictSet(fd, data_type, <<>>)
    ELSE DictSet(fd, data_type,
                 SelectSeq([i \in 1..Len(file.lines) |-> Strip(file.lines[i])],
                           LAMBDA line : Len(line) > 0))

-----------------------------------------------------------------------------
(* History of the tracker's calls                                          *)

Count(f, path) == IF path \in DOMAIN f THEN f[path] ELSE 0

\* One call of the tracker noted in the history. n: calls on the path;
\* found: those the retry loop answered; got: the values the loop returned;
\* seen: every value returned, the loop's and the fallback's.
Note(h, e) ==
    LET byLoop == e.step = "loop"
    IN  [h EXCEPT
           !.n     = DictSet(@, e.path, Count(@, e.path) + 1),
           !.found = DictSet(@, e.path, Count(@, e.path) + IF byLoop THEN 1 ELSE 0),
           !.got   = DictSet(@, e.path, Issued(@, e.path) \cup
                                          IF byLoop THEN {e.n} ELSE {}),
           !.seen  = DictSet(@, e.path, Issued(@, e.path) \cup
                                          IF e.raised THEN {} ELSE {e.n}),
           !.dup   = @ \cup IF ~e.raised /\ e.n \in Issued(h.seen, e.path)
                            THEN {e.path} ELSE {}]

RECURSIVE NoteAll(_, _)
NoteAll(h, log) ==
    IF Len(log) = 0 THEN h ELSE NoteAll(Note(h, log[1]), Tail(log))

\* the history of a tracker that starts with the sets of prior
NoHistory(prior) ==
    [calls |-> 0, n |-> <<>>, found |-> <<>>, got |-> <<>>, seen |-> <<>>,
     dup |-> {}, prior |-> prior, cleared |-> FALSE, same |-> FALSE]

NoArg ==
    [schema |-> <<>>, count |-> 0, cfg |-> <<>>, field_name |-> <<>>,
     digits |-> 0, rule |-> <<>>, name |-> <<>>, value |-> NoneV,
     target_type |-> <<>>]

NoRet ==
    [raised |-> FALSE, where |-> "none", value |-> NoneV, results |-> <<>>,
     kind |-> <<>>, params |-> <<>>, step |-> "none"]

-----------------------------------------------------------------------------
(* Bounds of the model                                                     *)

\* generate is called with count in 0..MaxCount
MaxCount == 2

\* generate runs at most MaxCalls times between two set_schema calls
MaxCalls == 2

\* the tracker is called with digits in 1..MaxDigits
MaxDigits == 2

\* the tracker starts with at most MaxFree values of its space still free
MaxFree == 3

\* the tracker is called at most MaxDraws times for a path
MaxDraws == 4

-----------------------------------------------------------------------------
(* The generator session: set_schema and generate                          *)

\* the schema of the end-to-end example, with one digit for the id
SchemaIdActive ==
    <<[key |-> <<"i", "d">>, cfg |-> [type |-> <<"i", "n", "t">>, rule |-> <<"@", "{", "1", "}", "u", "n", "i", "q", "u", "e">>]],
      [key |-> <<"a", "c", "t", "i", "v", "e">>, cfg |-> [type |-> <<"b", "o", "o", "l">>, rule |-> <<"b", "o", "o", "l">>]]>>

\* a schema whose unique number is a property of a nested object
SchemaProfile ==
    <<[key |-> <<"p", "r", "o", "f", "i", "l", "e">>,
       cfg |-> [type |-> <<"o", "b", "j", "e", "c", "t">>,
                properties |->
                  <<[key |-> <<"c", "o", "d", "e">>,
                     cfg |-> [type |-> <<"i", "n", "t">>, rule |-> <<"@", "{", "1", "}", "u", "n", "i", "q", "u", "e">>]]>>]]>>

Schemas == {SchemaIdActive, SchemaProfile}

Init ==
    /\ schema = <<>>
    /\ custom_rules = <<>>
    /\ file_data = <<>>
    /\ generated_values = <<>>
    /\ op = "init"
    /\ arg = NoArg
    /\ ret = NoRet
    /\ hist = NoHistory(<<>>)

SetSchema(s) ==
    LET r == set_schema(s, schema, generated_values)
    IN  /\ schema' = r.schema
        /\ generated_values' = r.generated_values
        /\ op' = "set_schema"
        /\ arg' = [NoArg EXCEPT !.schema = s]
        /\ ret' = NoRet
        \* cleared: the call found issued values; same: it was given the
        \* schema already in effect
        /\ hist' = [NoHistory(<<>>) EXCEPT
                      !.cleared = (\E p \in DOMAIN generated_values :
                                     generated_values[p] # {}),
                      !.same = (s = schema)]
        /\ UNCHANGED <<custom_rules, file_data>>

Generate(count) ==
    /\ hist.calls < MaxCalls
    /\ \E o \in generate(count, schema, generated_values, custom_rules, file_data) :
         /\ generated_values' = o.gv
         /\ op' = "generate"
         /\ arg' = [NoArg EXCEPT !.count = count]
         /\ ret' = [NoRet EXCEPT !.raised = o.raised, !.where = o.where,
                                 !.results = o.results]
         /\ hist' = [NoteAll(hist, o.log) EXCEPT !.calls = @ + 1,
                                                 !.cleared = FALSE, !.same = FALSE]
    /\ UNCHANGED <<schema, custom_rules, file_data>>

Next ==
    \/ \E s \in Schemas : SetSchema(s)
    \/ \E count \in 0..MaxCount : Generate(count)

Spec == Init /\ [][Next]_vars

-----------------------------------------------------------------------------
(* The uniqueness tracker called for one field path                        *)

TrackerPath == <<"i", "d", "_", "0">>

Space(digits) == min_val(digits)..max_val(digits)

\* The tracker after earlier calls for the path issued all of the space but
\* some of its MaxFree largest values.
TrackerInit ==
    \E digits \in 1..MaxDigits :
      \E free \in SUBSET ((max_val(digits) - MaxFree + 1)..max_val(digits)) :
        /\ generated_values = (TrackerPath :> (Space(digits) \ free))
        /\ arg = [NoArg EXCEPT !.digits = digits, !.field_name = TrackerPath]
        /\ hist = NoHistory(generated_values)
        /\ schema = <<>>
        /\ custom_rules = <<>>
        /\ file_data = <<>>
        /\ op = "init"
        /\ ret = NoRet

GenerateUniqueNumber ==
    /\ Count(hist.n, arg.field_name) < MaxDraws
    /\ \E o \in _generate_unique_number(arg.digits, arg.field_name,
                                        generated_values) :
         /\ generated_values' = o.gv
         /\ op' = "_generate_unique_number"
         /\ ret' = [NoRet EXCEPT !.raised = o.raised, !.step = o.step,
                                 !.value = IF o.raised THEN NoneV ELSE IntV(o.n)]
         /\ hist' = Note(hist, [path |-> arg.field_name, step |-> o.step,
                                raised |-> o.raised, n |-> o.n])
    /\ UNCHANGED <<schema, custom_rules, file_data, arg>>

TrackerNext == GenerateUniqueNumber

SpecTracker == TrackerInit /\ [][TrackerNext]_vars

-----------------------------------------------------------------------------
(* The resolver and its parts called on their own                          *)

\* declared types: the five the code knows, and one it does not
Types == {<<"i", "n", "t">>, <<"f", "l", "o", "a", "t">>, <<"d", "o", "u", "b", "l", "e">>, <<"b", "o", "o", "l">>, <<"s", "t", "r">>, <<"s", "t", "r", "i", "n", "g">>}

\* range rules written with decimal bounds, with the bounds in hundredths
DecimalRangeRules ==
    (<<"@", "{", "0", ".", "0", "-", "1", "0", ".", "0", "}", "r", "a", "n", "g", "e">> :> [min |-> 0, max |-> 1000]) @@
    (<<"@", "{", "1", ".", "5", "-", "2", ".", "5", "}", "r", "a", "n", "g", "e">> :> [min |-> 150, max |-> 250])

Rules ==
    {<<>>, <<"e", "m", "a", "i", "l">>, <<"a", "g", "e">>, <<"p", "r", "i", "c", "e">>, <<"b", "o", "o", "l">>, <<"z", "i", "p", "c", "o", "d", "e">>, <<"n", "o", "s", "u", "c", "h">>, <<"d", "e", "p", "t">>,
     <<"u", "s", "e", "r", "n", "a", "m", "e", "s">>, <<"u", "n", "i", "q", "u", "e">>, <<"r", "a", "n", "g", "e">>,
     <<"@", "{", "1", "}", "u", "n", "i", "q", "u", "e">>, <<"@", "{", "1", "}", "u", "n", "i", "q", "u", "e", "f", "o", "o">>, <<"@", "{", "m", "a", "l", "f", "o", "r", "m", "e", "d">>, <<"@", "{", "}", "c", "h", "o", "i", "c", "e">>,
     <<"@", "{", "1", "-", "3", "}", "r", "a", "n", "g", "e">>, <<"@", "{", "5", "-", "1", "}", "r", "a", "n", "g", "e">>, <<"@", "{", "1", "-", "3", "}", "r", "a", "n", "g", "e", "X", "Y">>, <<"@", "{", "1", "8", "-", "6", "5", "}", "r", "a", "n", "g", "e">>,
     <<"@", "{", "2", "}", "l", "e", "n", "g", "t", "h">>, <<"@", "{", "0", "}", "l", "e", "n", "g", "t", "h">>, <<"@", "{", "3", "}", "l", "e", "n", "g", "t", "h", "!">>,
     <<"@", "{", "y", "e", "s", ",", "n", "o", "}", "c", "h", "o", "i", "c", "e">>, <<"@", "{", "1", ",", " ", "2", ".", "5", "}", "c", "h", "o", "i", "c", "e">>, <<"@", "{", "a", "}", "b", "}", "c", "h", "o", "i", "c", "e">>,
     <<"@", "{", "B", "-", "#", "#", "}", "f", "o", "r", "m", "a", "t">>, <<"@", "{", "#", "#", "}", "f", "o", "r", "m", "a", "t">>}
      \cup DOMAIN DecimalRangeRules

\* templates given to the templater
Templates == {<<"A", "B", "C", "-", "#", "#", "#", "#">>, <<"#", "#">>, <<"a", "-", "a">>, <<"?">>, <<"x", "-", "1">>, <<>>}

\* an object with two properties, and arrays with and without a length
ObjectConfig ==
    [type |-> <<"o", "b", "j", "e", "c", "t">>,
     properties |-> <<[key |-> <<"f", "l", "a", "g">>, cfg |-> [type |-> <<"b", "o", "o", "l">>, rule |-> <<"e", "m", "a", "i", "l">>]],
                      [key |-> <<"n">>, cfg |-> [type |-> <<"i", "n", "t">>, rule |-> <<"a", "g", "e">>]]>>]

ArrayConfig ==
    [type |-> <<"a", "r", "r", "a", "y">>, length |-> 3, items |-> [type |-> <<"s", "t", "r">>, rule |-> <<"w", "o", "r", "d">>]]

ArrayConfigNoLength == [type |-> <<"a", "r", "r", "a", "y">>]

\* a configuration without a type: the type defaults to 'str'
ConfigNoType == [rule |-> <<"a", "g", "e">>]

\* rules given to the parser only: each differs from a rule given to the
\* resolver in its numbers alone
ParserOnlyRules ==
    {<<"@", "{", "1", "}", "u", "n", "i", "q", "u", "e", "f", "o", "o">>,
     <<"@", "{", "#", "#", "}", "f", "o", "r", "m", "a", "t">>,
     <<"@", "{", "1", "8", "-", "6", "5", "}", "r", "a", "n", "g", "e">>,
     <<"@", "{", "3", "}", "l", "e", "n", "g", "t", "h", "!">>,
     <<"@", "{", "1", ".", "5", "-", "2", ".", "5", "}", "r", "a", "n", "g", "e">>}

ScalarConfigs == {[type |-> t, rule |-> r] : t \in Types, r \in Rules \ ParserOnlyRules}

FieldConfigs ==
    ScalarConfigs \cup {ObjectConfig, ArrayConfig, ArrayConfigNoLength, ConfigNoType}

IsScalar(cfg) == Get(cfg, "type", <<"s", "t", "r">>) \notin {<<"a", "r", "r", "a", "y">>, <<"o", "b", "j", "e", "c", "t">>}

\* the path of the field resolved
ResolvePath == <<"f", "_", "0">>

\* custom rules a caller registers: the name and the values the callback returns
CustomRules == {[name |-> <<"d", "e", "p", "t">>, returns |-> {StrV(<<"S", "a", "l", "e", "s">>)}]}

\* files a caller loads: one that exists, with a blank line, and one that
\* does not
Files ==
    {[found |-> TRUE, lines |-> <<<<" ", "a", "l", "i", "c", "e", " ">>, <<" ">>, <<"b", "o", "b">>>>],
     [found |-> FALSE, lines |-> <<>>]}

\* values given to the coercer
CoerceValues ==
    {IntV(0), IntV(1), IntV(42), FloatV(314), FloatV(-250), BoolV(TRUE),
     StrV(<<"4", "2", ".", "0">>), StrV(<<"a", "b", "c">>), StrV(<<>>), NoneV}

\* the resolver is called at most MaxResolveCalls times
MaxResolveCalls == 2

AddCustomRule(name, generator) ==
    /\ custom_rules' = add_custom_rule(custom_rules, name, generator)
    /\ op' = "add_custom_rule"
    /\ arg' = [NoArg EXCEPT !.name = name]
    /\ ret' = NoRet
    /\ UNCHANGED <<schema, file_data, generated_values, hist>>

LoadFileData(data_type, file) ==
    /\ file_data' = load_file_data(file_data, data_type, file)
    /\ op' = "load_file_data"
    /\ arg' = [NoArg EXCEPT !.name = data_type]
    /\ ret' = NoRet
    /\ UNCHANGED <<schema, custom_rules, generated_values, hist>>

GenerateValue(cfg) ==
    /\ hist.calls < MaxResolveCalls
    /\ \E o \in _generate_value(cfg, ResolvePath, generated_values,
                                custom_rules, file_data) :
         /\ generated_values' = o.gv
         /\ op' = "_generate_value"
         /\ arg' = [NoArg EXCEPT !.cfg = cfg, !.field_name = ResolvePath]
         /\ ret' = [NoRet EXCEPT !.raised = o.raised, !.where = o.where,
                                 !.value = o.value]
         /\ hist' = [NoteAll(hist, o.log) EXCEPT !.calls = @ + 1]
    /\ UNCHANGED <<schema, custom_rules, file_data>>

ParseRule(rule) ==
    LET p == _parse_rule(rule)
    IN  /\ op' = "_parse_rule"
        /\ arg' = [NoArg EXCEPT !.rule = rule]
        /\ ret' = [NoRet EXCEPT !.kind = p.kind, !.params = p.params]
        /\ UNCHANGED <<schema, custom_rules, file_data, generated_values, hist>>

ApplyFormat(format_str) ==
    /\ \E s \in FormatOutputs(format_str) :
         /\ op' = "_apply_format"
         /\ arg' = [NoArg EXCEPT !.rule = format_str]
         /\ ret' = [NoRet EXCEPT !.value = StrV(s)]
    /\ UNCHANGED <<schema, custom_rules, file_data, generated_values, hist>>

ConvertType(value, target_type) ==
    LET c == _convert_type(value, target_type)
    IN  /\ op' = "_convert_type"
        /\ arg' = [NoArg EXCEPT !.value = value, !.target_type = target_type]
        /\ ret' = [NoRet EXCEPT !.raised = c.raised, !.value = c.value,
                                !.where = IF c.raised THEN "coerce" ELSE "none"]
        /\ UNCHANGED <<schema, custom_rules, file_data, generated_values, hist>>

ResolveNext ==
    \/ \E c \in CustomRules : AddCustomRule(c.name, c.returns)
    \/ \E f \in Files : LoadFileData(<<"u", "s", "e", "r", "n", "a", "m", "e", "s">>, f)
    \/ \E cfg \in FieldConfigs : GenerateValue(cfg)

SpecResolve == Init /\ [][ResolveNext]_vars

\* the parts of the resolver, each applied to inputs of its own
PartsNext ==
    \/ \E rule \in Rules : ParseRule(rule)
    \/ \E t \in Templates : ApplyFormat(t)
    \/ \E v \in CoerceValues, t \in Types : ConvertType(v, t)

SpecParts == Init /\ [][PartsNext]_vars

-----------------------------------------------------------------------------
(* Properties of the generator session (Spec)                              *)

Key_id == <<"i", "d">>

\* the path generate gives the top-level field id in record i
IdPath(i) == Key_id \o <<"_">> \o NatToStr(i)

\* the values of the schema's first key in the records a generate call returned
FirstValues == [i \in 1..Len(ret.results) |-> ret.results[i][1]]

\* C1: within one generate(count) call on a schema whose top-level field id
\* has type int and rule @{1}unique, the values of id in the returned records
\* are pairwise distinct one-digit integers.
C1_BatchValuesDistinct ==
    (op = "generate" /\ ~ret.raised /\ schema = SchemaIdActive)
    => /\ Len(ret.results) = arg.count
       /\ \A i \in 1..Len(ret.results) :
            FirstValues[i].t = "int" /\ FirstValues[i].n \in Space(1)
       /\ \A i, j \in 1..Len(ret.results) :
            i # j => FirstValues[i].n # FirstValues[j].n

\* C4: right after any set_schema call, also one given the schema already in
\* effect, no field path has an issued value, so the tracker's loop can
\* return every value of the space for every path of the id field.
C4_SetSchemaResetsTracker ==
    op = "set_schema"
    => /\ \A p \in DOMAIN generated_values : generated_values[p] = {}
       /\ \A i \in 0..(MaxCount - 1) : \A v \in Space(1) :
            \E o \in _generate_unique_number(1, IdPath(i), generated_values) :
               o.step = "loop" /\ ~o.raised /\ o.n = v

\* a set_schema call that was given the schema in effect and found issued values
C4_Witness == op = "set_schema" /\ hist.same /\ hist.cleared

\* the sets of the tracker are keyed by <field>_<record index>, and while the
\* loop found a free value in every call for a path, the values the path got
\* in the generate calls since the last set_schema are pairwise distinct
C10_KeyedAndDistinct ==
    schema = SchemaIdActive
    => /\ DOMAIN generated_values \subseteq {IdPath(i) : i \in 0..(MaxCount - 1)}
       /\ \A p \in DOMAIN hist.n :
            /\ p \in DOMAIN generated_values
            /\ Issued(hist.got, p) = generated_values[p]
            /\ Count(hist.found, p) = hist.n[p]
               => Cardinality(Issued(hist.seen, p)) = hist.n[p]

\* a step that is not a set_schema call leaves every set of the tracker in
\* place and removes nothing from it
C10_SetsGrow ==
    op' # "set_schema"
    => \A p \in DOMAIN generated_values :
          /\ p \in DOMAIN generated_values'
          /\ generated_values[p] \subseteq generated_values'[p]

\* C10: the uniqueness sets persist across generate calls and are keyed by
\* <field>_<record index>: with no set_schema in between and while the retry
\* loop finds a free value, record i's id differs from record i's id of every
\* earlier generate call, and each set only grows until the next set_schema.
C10_PersistAcrossCalls == []C10_KeyedAndDistinct /\ [][C10_SetsGrow]_vars

\* a second generate call gave record 0 an id from the loop, as the first did
C10_Witness ==
    /\ op = "generate"
    /\ schema = SchemaIdActive
    /\ hist.calls = 2
    /\ Count(hist.found, IdPath(0)) = 2

-----------------------------------------------------------------------------
(* Properties of the uniqueness tracker (SpecTracker)                      *)

\* the values issued for the path before the calls of the behaviour
Prior == Issued(hist.prior, TrackerPath)

\* the calls made for the path in all: those before and those of the behaviour
CallsInAll == Cardinality(Prior) + Count(hist.n, TrackerPath)

\* C2 as stated: N <= 10^D successive calls for one path return N pairwise
\* distinct integers of the D-digit range.
C2_NDistinctInRange ==
    (op = "_generate_unique_number" /\ CallsInAll <= Pow10(arg.digits))
    => /\ ~ret.raised
       /\ ret.value.t = "int"
       /\ ret.value.n \in Space(arg.digits)
       /\ TrackerPath \notin hist.dup
       /\ Issued(hist.seen, TrackerPath) \cap Prior = {}

\* C2 amended: the values the retry loop returns for one path are within the
\* D-digit range, pairwise distinct and distinct from the values issued
\* before, so they number at most the size of the range.
C2_LoopValuesDistinctInRange ==
    LET got == Issued(hist.got, TrackerPath)
    IN  /\ Cardinality(got) = Count(hist.found, TrackerPath)
        /\ got \subseteq Space(arg.digits)
        /\ got \cap Prior = {}
        /\ Issued(generated_values, TrackerPath) = Prior \cup got
        /\ Cardinality(Prior \cup got) <= Cardinality(Space(arg.digits))
        /\ (op = "_generate_unique_number" /\ ret.step = "loop")
           => ~ret.raised /\ ret.value.n \in got

\* the loop answered two calls and the fallback one
C2_Witness ==
    /\ op = "_generate_unique_number"
    /\ Count(hist.found, TrackerPath) >= 2
    /\ Count(hist.n, TrackerPath) > Count(hist.found, TrackerPath)

\* C3: a call whose retry budget is spent does not raise; it returns the
\* composite fallback integer.
C3_FallbackDoesNotRaise ==
    (op = "_generate_unique_number" /\ ret.step = "fallback")
    => ~ret.raised /\ ret.value.t = "int"

-----------------------------------------------------------------------------
(* Properties of the resolver (SpecResolve) and its parts (SpecParts)      *)

T_int    == <<"i", "n", "t">>
T_float  == <<"f", "l", "o", "a", "t">>
T_double == <<"d", "o", "u", "b", "l", "e">>
T_bool   == <<"b", "o", "o", "l">>
T_str    == <<"s", "t", "r">>

\* the declared type and the rule of the configuration resolved
DeclaredType == Get(arg.cfg, "type", T_str)
DeclaredRule == Get(arg.cfg, "rule", <<>>)

\* C5: a float or double field with a range rule written with decimal bounds
\* resolves to a real number within the bounds.
C5_DecimalRangeWithinBounds ==
    (/\ op = "_generate_value"
     /\ IsScalar(arg.cfg)
     /\ DeclaredType \in {T_float, T_double}
     /\ DeclaredRule \in DOMAIN DecimalRangeRules)
    => /\ ~ret.raised
       /\ ret.value.t = "float"
       /\ DecimalRangeRules[DeclaredRule].min <= ret.value.n
       /\ ret.value.n <= DecimalRangeRules[DeclaredRule].max

Placeholders == {"#", "A", "a", "?"}

\* the positions of a template that hold the placeholder c
PositionsOf(c, template) == {i \in 1..Len(template) : template[i] = c}

\* C6: each occurrence of a placeholder gets its own draw: for a template
\* with two or more of one placeholder an output that differs at two of its
\* positions can be returned; the output has the template's length and keeps
\* every other character in place.
C6_IndependentDraws ==
    op = "_apply_format"
    => /\ Len(ret.value.s) = Len(arg.rule)
       /\ \A i \in 1..Len(arg.rule) :
            arg.rule[i] \notin Placeholders => ret.value.s[i] = arg.rule[i]
       /\ \A c \in Placeholders :
            Cardinality(PositionsOf(c, arg.rule)) >= 2
            => \E s \in FormatOutputs(arg.rule) :
                 \E i, j \in PositionsOf(c, arg.rule) : s[i] # s[j]

EndsWith(s, suffix) ==
    /\ Len(s) >= Len(suffix)
    /\ SubSeq(s, Len(s) - Len(suffix) + 1, Len(s)) = suffix

\* C7: the parser returns a parametric kind only for a rule that is
\* @{payload}kind from its first character to its last; any other rule comes
\* back unchanged with no params.
C7_ParametricOnlyOnWholeMatch ==
    op = "_parse_rule"
    => \/ /\ ret.params # <<>>
          /\ \E i \in 1..Len(PatternNames) : ret.kind = PatternNames[i]
          /\ StartsWith(arg.rule, W_open)
          /\ EndsWith(arg.rule, <<"}">> \o ret.kind)
       \/ /\ ret.params = <<>>
          /\ ret.kind = arg.rule

\* C8: resolving a scalar field raises only when the coercion of the raw
\* value fails; the dispatch cascade does not raise.
C8_RaisesOnlyInCoercion ==
    (op = "_generate_value" /\ IsScalar(arg.cfg) /\ ret.raised)
    => ret.where = "coerce"

\* the Python type a declared type stands for
TypeOf(declared) ==
    IF declared = T_int THEN "int"
    ELSE IF declared \in {T_float, T_double} THEN "float"
    ELSE IF declared = T_bool THEN "bool"
    ELSE "str"

\* C9: a field of declared type int, float, double, bool or str that
\* resolves without raising resolves to a value of that type; so does every
\* property of a nested object.
C9_ValueHasDeclaredType ==
    (op = "_generate_value" /\ ~ret.raised)
    => /\ (IsScalar(arg.cfg) /\ DeclaredType \in {T_int, T_float, T_double, T_bool, T_str})
          => ret.value.t = TypeOf(DeclaredType)
       /\ DeclaredType = <<"o", "b", "j", "e", "c", "t">>
          => \A i \in 1..Len(ret.value.kids) :
                ret.value.kids[i].value.t
                  = TypeOf(arg.cfg.properties[i].cfg.type)

====
